---------------------------- MODULE Spec2Model ----------------------------
(***************************************************************************)
(* A model of DataFrameManager.py: the group registry kept by              *)
(* DataFrameManager.file_groups and mutated by the FileManagerApp          *)
(* handlers (create_group, add_files_to_group, remove_files_from_group /   *)
(* do_remove, delete_group), its persistence through save_config and       *)
(* load_config, the ingestion engine load_dataframe_group, the null        *)
(* handling of process_dataframe and the table store (save_dataframe,      *)
(* load_saved_dataframe, FileManagerApp.process_and_save and               *)
(* delete_dataframe).                                                      *)
(*                                                                         *)
(* Strings whose structure the code inspects are sequences: a group name   *)
(* is a sequence of characters (str.strip acts on it), a path is a         *)
(* directory together with the dot-separated segments of its base name     *)
(* (os.path.basename, str.lower and str.endswith act on it), a column      *)
(* name is a sequence of tokens (the f"{col}_{i}" renaming appends to it). *)
(***************************************************************************)
EXTENDS Integers, Sequences, FiniteSets, TLC

VARIABLES
    file_groups,  \* DataFrameManager.file_groups: an insertion-ordered dict
    config,       \* the file at config_path
    popup,        \* the modal "Select Files to Remove" window
    last,         \* how the last handler ended, and what it was given
    storage,      \* what writing the config file does in this run
    exists,       \* the paths os.path.exists answers True for
    library,      \* how the installed pandas treats a concatenation
    result,       \* what the last load_group call of load_dataframe_group produced
    data_path,    \* the files of the saved_dataframes directory, by name
    saved_df_listbox, \* the names the "Saved DataFrames" list shows
    df_call,      \* the tables of the last processing or store call
    saved         \* per name, the table of the last save that returned True

vars == <<file_groups, config, popup, last, storage, exists, library, result,
          data_path, saved_df_listbox, df_call, saved>>

(***************************************************************************)
(* Bounds of the model.                                                    *)
(***************************************************************************)
MaxAdd == 2        \* paths handed to one add_files_to_group call
MaxFiles == 3      \* paths of the group given to load_dataframe_group

(***************************************************************************)
(* Generic sequence helpers.                                               *)
(***************************************************************************)
Range(s) == {s[i] : i \in 1..Len(s)}

NoDup(s) == \A i, j \in 1..Len(s) : s[i] = s[j] => i = j

SeqsUpTo(S, n) == UNION {[1..k -> S] : k \in 0..n}

RECURSIVE SetToSeq(_)
SetToSeq(S) ==
    IF S = {} THEN <<>>
    ELSE LET m == CHOOSE x \in S : \A y \in S : x <= y
         IN <<m>> \o SetToSeq(S \ {m})

(* list.index-style search: position of the first element equal to x, 0 if none *)
RECURSIVE IndexOf(_, _)
IndexOf(s, x) ==
    IF s = <<>> THEN 0
    ELSE IF Head(s) = x THEN 1
    ELSE LET r == IndexOf(Tail(s), x) IN IF r = 0 THEN 0 ELSE r + 1

RemoveAt(s, i) == SubSeq(s, 1, i - 1) \o SubSeq(s, i + 1, Len(s))

(***************************************************************************)
(* Group names: str.strip() of the text typed into the name entry.         *)
(***************************************************************************)
Whitespace == {" ", "\t"}

RawNames ==
    { <<>>, <<" ">>, <<"a">>, <<" ", "a">>, <<"a", "\t">>, <<"b">>,
      <<" ", "b", " ">> }

RECURSIVE lstrip(_)
lstrip(s) ==
    IF s = <<>> THEN s
    ELSE IF Head(s) \in Whitespace THEN lstrip(Tail(s)) ELSE s

RECURSIVE rstrip(_)
rstrip(s) ==
    IF s = <<>> THEN s
    ELSE IF s[Len(s)] \in Whitespace THEN rstrip(SubSeq(s, 1, Len(s) - 1)) ELSE s

strip(s) == rstrip(lstrip(s))

(***************************************************************************)
(* Paths.  A path is its directory and the segments of its base name; two  *)
(* paths are the same string exactly when both agree.                      *)
(***************************************************************************)
P(d, segs) == [dir |-> d, segs |-> segs]

basename(path) == path.segs

(* the paths the file dialog can return: two files of the same base name *)
RegPaths == { P("a", <<"x", "csv">>), P("b", <<"x", "csv">>) }

(***************************************************************************)
(* The insertion-ordered dict file_groups: a sequence of entries with      *)
(* pairwise different keys.                                                *)
(***************************************************************************)
Keys(d) == {d[i].name : i \in 1..Len(d)}

KeyIndex(d, k) == CHOOSE i \in 1..Len(d) : d[i].name = k

DictGet(d, k) == d[KeyIndex(d, k)].paths

DictSet(d, k, v) ==
    IF k \in Keys(d)
    THEN [d EXCEPT ![KeyIndex(d, k)].paths = v]
    ELSE Append(d, [name |-> k, paths |-> v])

DictDel(d, k) == RemoveAt(d, KeyIndex(d, k))

(***************************************************************************)
(* Config persistence.  json.dump writes the dict as the members of a JSON *)
(* object in dict order; json.load rebuilds a dict by inserting the        *)
(* members in file order.                                                  *)
(***************************************************************************)
json_dump(d) == [i \in 1..Len(d) |-> <<d[i].name, d[i].paths>>]

RECURSIVE json_load(_)
json_load(members) ==
    IF members = <<>> THEN <<>>
    ELSE LET n == Len(members)
             m == members[n]
         IN DictSet(json_load(SubSeq(members, 1, n - 1)), m[1], m[2])

NoConfig == [state |-> "absent", text |-> <<>>]

CorruptConfig == [state |-> "corrupt", text |-> <<>>]

(* load_config: no file leaves the constructor's {}; an unreadable file gives {} *)
load_config(cfg) ==
    IF cfg.state = "absent" THEN <<>>
    ELSE IF cfg.state = "corrupt" THEN <<>>
    ELSE json_load(cfg.text)

(* What the storage under config_path does with a write: it takes it, or   *)
(* open(config_path, 'w') raises (the file stays as it was), or the file is *)
(* truncated by open and the write into it raises.                          *)
StorageKinds == {"writable", "open_fails", "write_fails"}

(* save_config: every exception of the write is caught and printed, so the  *)
(* method returns normally whatever became of the file.                     *)
save_config(d, cfg, st) ==
    CASE st = "writable" -> [state |-> "valid", text |-> json_dump(d)]
      [] st = "open_fails" -> cfg
      [] st = "write_fails" -> CorruptConfig


(***************************************************************************)
(* Tables (pandas DataFrames): ordered column names and rows aligned with  *)
(* them.  A column name is a sequence of tokens.                           *)
(***************************************************************************)
Table(cols, rows) == [cols |-> cols, rows |-> rows]

NoTable == Table(<<>>, <<>>)

(***************************************************************************)
(* What a call of load_dataframe_group answers: how it ended (kind), the   *)
(* table returned, the paths named by FileNotFoundError, the files the     *)
(* readers opened, the tables handed to pd.concat, whether the renaming    *)
(* pass ran and how many times pd.concat was called.                       *)
(***************************************************************************)
Answer(kind, table, missing, reads, dfs, renamed, concats) ==
    [kind |-> kind, table |-> table, missing |-> missing, reads |-> reads,
     dfs |-> dfs, renamed |-> renamed, concats |-> concats]

NoResult ==
    [called |-> FALSE, group |-> <<>>,
     answer |-> Answer("", NoTable, <<>>, <<>>, <<>>, FALSE, 0)]

(***************************************************************************)
(* Null handling and the table store.                                      *)
(***************************************************************************)
NaN == "NaN"

(* Python's None where a table is expected *)
None == [none |-> TRUE]

has_null(row) == \E k \in 1..Len(row) : row[k] = NaN

(* df.dropna(subset=[first column]): only the first column is inspected *)
dropna_first_column(df) ==
    Table(df.cols, SelectSeq(df.rows, LAMBDA row : row = <<>> \/ row[1] # NaN))

(* df.dropna(): a new table of the rows that hold no null, in order *)
dropna(df) == Table(df.cols, SelectSeq(df.rows, LAMBDA row : ~has_null(row)))

(* df.fillna(value): a new table with value in the place of every null *)
fillna(df, value) ==
    Table(df.cols,
          [r \in 1..Len(df.rows) |->
              [k \in 1..Len(df.rows[r]) |->
                  IF df.rows[r][k] = NaN THEN value ELSE df.rows[r][k]]])

(* the cell fillna(0) writes *)
Zero == "0"

HandleNulls == {"drop", "zero", "keep"}

(* process_dataframe: what it returns, and the table it was given as the   *)
(* call leaves it (dropna and fillna build new tables; no branch writes to *)
(* the argument)                                                           *)
process_dataframe(table, handle_nulls) ==
    IF table = None THEN [returned |-> None, df |-> None]
    ELSE [returned |-> CASE handle_nulls = "drop" -> dropna(table)
                         [] handle_nulls = "zero" -> fillna(table, Zero)
                         [] OTHER -> table,
          df |-> table]

(* pickle.dump of a table: its column axis, its length and the values held *)
(* column by column; pickle.load rebuilds the rows from the columns        *)
pickle_dump(table) ==
    [columns |-> table.cols,
     nrows |-> Len(table.rows),
     blocks |-> [k \in 1..Len(table.cols) |->
                    [r \in 1..Len(table.rows) |-> table.rows[r][k]]]]

pickle_load(blob) ==
    Table(blob.columns,
          [r \in 1..blob.nrows |->
              [k \in 1..Len(blob.columns) |-> blob.blocks[k][r]]])

(* a file of data_path: absent, a complete pickle, or what open(.., 'wb')  *)
(* followed by a failed write leaves (truncated or partial)                *)
AbsentFile == [state |-> "absent", blob |-> pickle_dump(NoTable)]

PartialFile == [state |-> "partial", blob |-> pickle_dump(NoTable)]

PickleFile(table) == [state |-> "valid", blob |-> pickle_dump(table)]

(* save_dataframe: the answer and the directory afterwards.  st is what    *)
(* the storage does with this write (StorageKinds).                        *)
save_dataframe(table, name, dir, st) ==
    IF table = None THEN [ok |-> FALSE, dir |-> dir]
    ELSE CASE st = "writable" ->
                [ok |-> TRUE, dir |-> [dir EXCEPT ![name] = PickleFile(table)]]
           [] st = "open_fails" -> [ok |-> FALSE, dir |-> dir]
           [] st = "write_fails" ->
                [ok |-> FALSE, dir |-> [dir EXCEPT ![name] = PartialFile]]

(* load_saved_dataframe: None without the file, and None when pickle.load  *)
(* raises on it                                                            *)
load_saved_dataframe(name, dir) ==
    IF dir[name].state = "absent" THEN None
    ELSE IF dir[name].state = "partial" THEN None
    ELSE pickle_load(dir[name].blob)

(* data_dir.glob("*.pkl") of update_saved_df_listbox *)
glob_pkl(dir) == {n \in DOMAIN dir : dir[n].state # "absent"}

(* the texts typed into the DataFrame name field, and the names they give *)
RawDfNames == { <<" ">>, <<"t">>, <<" ", "u">> }

DfNames == {strip(raw) : raw \in RawDfNames} \ {<<>>}

NoCall ==
    [op |-> "none", name |-> <<>>, handle_nulls |-> "", input |-> None,
     after |-> None, returned |-> None]

InitStore ==
    /\ data_path = [n \in DfNames |-> AbsentFile]
    /\ saved_df_listbox = {}
    /\ df_call = NoCall
    /\ saved = [n \in DfNames |-> None]

(***************************************************************************)
(* The record of how the last handler ended.  outcome is "success" when    *)
(* the handler reached its status_var.set line, "error" or "info" when it  *)
(* showed a message box and returned, "noop" when it returned silently and *)
(* "exception" when an exception left it.  group is the group the handler  *)
(* worked on (for create_group, the stripped name; for the table store's   *)
(* handlers, the table name).                                              *)
(***************************************************************************)
Last(op, outcome, group) ==
    [op |-> op, outcome |-> outcome, group |-> group]

NoPopup == [open |-> FALSE, group |-> <<>>, items |-> <<>>, paths |-> <<>>]

(***************************************************************************)
(* FileManagerApp.create_group                                             *)
(***************************************************************************)
(* create_group without the "already exists" test of line 297 *)
create_group_overwriting(raw) ==
    /\ ~popup.open
    /\ LET group_name == strip(raw) IN
       IF group_name = <<>>
       THEN /\ last' = Last("create", "error", group_name)
            /\ UNCHANGED <<file_groups, config>>
       ELSE /\ file_groups' = DictSet(file_groups, group_name, <<>>)
            /\ config' = save_config(file_groups', config, storage)
            /\ last' = Last("create", "success", group_name)
    /\ UNCHANGED <<popup, storage, exists, library, result,
                 data_path, saved_df_listbox, df_call, saved>>

create_group(raw) ==
    /\ ~popup.open
    /\ LET group_name == strip(raw) IN
       IF group_name = <<>> \/ group_name \in Keys(file_groups)
       THEN /\ last' = Last("create", "error", group_name)
            /\ UNCHANGED <<file_groups, config>>
       ELSE /\ file_groups' = DictSet(file_groups, group_name, <<>>)
            /\ config' = save_config(file_groups', config, storage)
            /\ last' = Last("create", "success", group_name)
    /\ UNCHANGED <<popup, storage, exists, library, result,
                 data_path, saved_df_listbox, df_call, saved>>

(***************************************************************************)
(* FileManagerApp.add_files_to_group                                       *)
(***************************************************************************)
(* add_new without the membership test of line 325 *)
add_new_unchecked(list, file_paths) == list \o file_paths

RECURSIVE add_new(_, _)
add_new(list, file_paths) ==
    IF file_paths = <<>> THEN list
    ELSE LET path == Head(file_paths) IN
         add_new(IF path \notin Range(list) THEN Append(list, path) ELSE list,
                 Tail(file_paths))

add_files_to_group(group_name, file_paths) ==
    /\ ~popup.open
    /\ group_name \in Keys(file_groups)
    /\ IF file_paths = <<>>
       THEN /\ last' = Last("add", "noop", group_name)
            /\ UNCHANGED <<file_groups, config>>
       ELSE /\ file_groups' = DictSet(file_groups, group_name,
                                      add_new(DictGet(file_groups, group_name),
                                              file_paths))
            /\ config' = save_config(file_groups', config, storage)
            /\ last' = Last("add", "success", group_name)
    /\ UNCHANGED <<popup, storage, exists, library, result,
                 data_path, saved_df_listbox, df_call, saved>>

(***************************************************************************)
(* FileManagerApp.remove_files_from_group: opens the modal popup whose     *)
(* listbox shows the base name of each path of the group.  The popup's     *)
(* paths field remembers which path each listbox row was made from.        *)
(***************************************************************************)
remove_files_from_group(group_name) ==
    /\ ~popup.open
    /\ group_name \in Keys(file_groups)
    /\ LET list == DictGet(file_groups, group_name) IN
       popup' = [open |-> TRUE, group |-> group_name,
                 items |-> [i \in 1..Len(list) |-> basename(list[i])],
                 paths |-> list]
    /\ UNCHANGED <<file_groups, config, last, storage, exists, library, result,
                 data_path, saved_df_listbox, df_call, saved>>

popup_cancel ==
    /\ popup.open
    /\ popup' = NoPopup
    /\ UNCHANGED <<file_groups, config, last, storage, exists, library, result,
                 data_path, saved_df_listbox, df_call, saved>>

(***************************************************************************)
(* do_remove, the popup's "Remove Selected" callback.                      *)
(***************************************************************************)
selected_filenames(items, selected_indices) ==
    LET idx == SetToSeq(selected_indices) IN
    [k \in 1..Len(idx) |-> items[idx[k]]]

(* the inner loop: the first path of the group with that base name *)
RECURSIVE first_with_basename(_, _)
first_with_basename(list, filename) ==
    IF list = <<>> THEN <<>>
    ELSE IF basename(Head(list)) = filename THEN <<Head(list)>>
    ELSE first_with_basename(Tail(list), filename)

RECURSIVE paths_to_remove(_, _)
paths_to_remove(list, filenames) ==
    IF filenames = <<>> THEN <<>>
    ELSE first_with_basename(list, Head(filenames))
         \o paths_to_remove(list, Tail(filenames))

(* the removal loop: list.remove(path) deletes the first occurrence and     *)
(* raises ValueError when there is none, which ends the loop and the handler *)
RECURSIVE remove_each(_, _)
remove_each(list, to_remove) ==
    IF to_remove = <<>> THEN [list |-> list, raised |-> FALSE]
    ELSE LET i == IndexOf(list, Head(to_remove)) IN
         IF i = 0 THEN [list |-> list, raised |-> TRUE]
         ELSE remove_each(RemoveAt(list, i), Tail(to_remove))

do_remove(selected_indices) ==
    /\ popup.open
    /\ selected_indices \subseteq 1..Len(popup.items)
    /\ LET group_name == popup.group
           list == DictGet(file_groups, group_name)
           removal == remove_each(list,
                          paths_to_remove(list,
                              selected_filenames(popup.items, selected_indices)))
       IN
       IF selected_indices = {}
       THEN /\ last' = Last("remove", "info", group_name)
            /\ UNCHANGED <<file_groups, config, popup>>
       ELSE IF removal.raised
       THEN /\ file_groups' = DictSet(file_groups, group_name, removal.list)
            /\ last' = Last("remove", "exception", group_name)
            /\ UNCHANGED <<config, popup>>
       ELSE /\ file_groups' = DictSet(file_groups, group_name, removal.list)
            /\ config' = save_config(file_groups', config, storage)
            /\ last' = Last("remove", "success", group_name)
            /\ popup' = NoPopup
    /\ UNCHANGED <<storage, exists, library, result,
                 data_path, saved_df_listbox, df_call, saved>>

(***************************************************************************)
(* FileManagerApp.delete_group                                             *)
(***************************************************************************)
delete_group(group_name, confirmed) ==
    /\ ~popup.open
    /\ group_name \in Keys(file_groups)
    /\ IF confirmed
       THEN /\ file_groups' = DictDel(file_groups, group_name)
            /\ config' = save_config(file_groups', config, storage)
            /\ last' = Last("delete", "success", group_name)
       ELSE /\ last' = Last("delete", "noop", group_name)
            /\ UNCHANGED <<file_groups, config>>
    /\ UNCHANGED <<popup, storage, exists, library, result,
                 data_path, saved_df_listbox, df_call, saved>>

(***************************************************************************)
(* A new process: DataFrameManager.__init__ starts from {} and load_config *)
(* reads the config file.                                                  *)
(***************************************************************************)
restart ==
    /\ file_groups' = load_config(config)
    /\ popup' = NoPopup
    /\ last' = Last("restart", "noop", <<>>)
    /\ UNCHANGED <<config, storage, exists, library, result,
                 data_path, saved_df_listbox, df_call, saved>>

InitRegistry ==
    /\ file_groups = <<>>
    /\ config = NoConfig
    /\ popup = NoPopup
    /\ last = Last("init", "noop", <<>>)
    /\ storage \in StorageKinds
    /\ exists = {}
    /\ library = "aligns"
    /\ result = NoResult
    /\ InitStore

CreateGroup == \E raw \in RawNames : create_group(raw)

AddPaths ==
    \E g \in Keys(file_groups) : \E ps \in SeqsUpTo(RegPaths, MaxAdd) :
        add_files_to_group(g, ps)

OpenRemove == \E g \in Keys(file_groups) : remove_files_from_group(g)

DoRemove == \E sel \in SUBSET (1..Len(popup.items)) : do_remove(sel)

DeleteGroup ==
    \E g \in Keys(file_groups) : \E c \in BOOLEAN : delete_group(g, c)

NextRegistry ==
    \/ CreateGroup
    \/ AddPaths
    \/ OpenRemove
    \/ DoRemove
    \/ popup_cancel
    \/ DeleteGroup
    \/ restart

SpecRegistry == InitRegistry /\ [][NextRegistry]_vars


(***************************************************************************)
(* Files.  Every path of LoadPaths has a fixed content; which of them      *)
(* exist changes.  A content is the header tokens and the data rows; an    *)
(* empty file has neither, and pandas raises EmptyDataError on it.         *)
(***************************************************************************)
A_CSV == P("d", <<"a", "csv">>)
C_CSV == P("d", <<"c", "csv">>)
B_XLSX == P("d", <<"b", "XLSX">>)
R_ROWOUT == P("d", <<"run", "1", "rowout">>)
N_TXT == P("d", <<"n", "txt">>)
E_CSV == P("d", <<"e", "csv">>)

LoadPaths == {A_CSV, C_CSV, B_XLSX, R_ROWOUT, N_TXT, E_CSV}

FileContent(path) ==
    CASE path = A_CSV ->
           [empty |-> FALSE, header |-> <<"x", "y">>,
            rows |-> << <<"a1x", "a1y">>, <<"a2x", "a2y">> >>]
      [] path = C_CSV ->
           [empty |-> FALSE, header |-> <<"x", "y">>,
            rows |-> << <<"c1x", "c1y">> >>]
      [] path = B_XLSX ->
           [empty |-> FALSE, header |-> <<"y", "z">>,
            rows |-> << <<"b1y", "b1z">> >>]
      [] path = R_ROWOUT ->
           [empty |-> FALSE, header |-> <<"x", "y">>,
            rows |-> << <<"r1x", "r1y">> >>]
      [] path = N_TXT ->
           [empty |-> FALSE, header |-> <<"x">>, rows |-> << <<"n1x">> >>]
      [] path = E_CSV ->
           [empty |-> TRUE, header |-> <<>>, rows |-> <<>>]

(***************************************************************************)
(* Extension dispatch: file_path.lower().endswith(suffix).  The path ends  *)
(* with "." + ext exactly when its base name has a dot and its last        *)
(* segment, lowercased, is ext.                                            *)
(***************************************************************************)
lower(token) ==
    CASE token = "CSV" -> "csv"
      [] token = "XLS" -> "xls"
      [] token = "XLSX" -> "xlsx"
      [] token = "ROWOUT" -> "rowout"
      [] token = "TXT" -> "txt"
      [] OTHER -> token

endswith_ext(path, exts) ==
    /\ Len(path.segs) >= 2
    /\ lower(path.segs[Len(path.segs)]) \in exts

(* os.path.basename(file_path).split(".")[0] *)
file_name_of(path) == Head(basename(path))

(* str(i): the decimal digits of a non-negative integer *)
digit(n) == <<"0", "1", "2", "3", "4", "5", "6", "7", "8", "9">>[n + 1]

RECURSIVE str_int(_)
str_int(n) == IF n < 10 THEN <<digit(n)>> ELSE str_int(n \div 10) \o <<digit(n % 10)>>

(***************************************************************************)
(* The format readers.                                                     *)
(***************************************************************************)
FILE_NAME == <<"FILE_NAME">>

HeaderCols(header) == [i \in 1..Len(header) |-> <<header[i]>>]

(* read_table reading with header=None: the header line becomes a data row *)
read_table_headerless(content) ==
    Table([i \in 1..Len(content.header) |-> <<digit(i - 1)>>],
          <<content.header>> \o content.rows)

(* pd.read_csv / pd.read_excel: first row is the header *)
read_table(content) == Table(HeaderCols(content.header), content.rows)

(* the .rowout branch: header tokens of the first line, the data rows, then *)
(* df["FILE_NAME"] = file_name and FILE_NAME moved to the front             *)
read_rowout(content, file_name) ==
    LET df == Table(HeaderCols(content.header), content.rows)
        at == IndexOf(df.cols, FILE_NAME)
        assigned ==
            IF at = 0
            THEN Table(Append(df.cols, FILE_NAME),
                       [r \in 1..Len(df.rows) |-> Append(df.rows[r], file_name)])
            ELSE Table(df.cols,
                       [r \in 1..Len(df.rows) |->
                            [df.rows[r] EXCEPT ![at] = file_name]])
        order == <<IndexOf(assigned.cols, FILE_NAME)>>
                 \o SelectSeq([i \in 1..Len(assigned.cols) |-> i],
                              LAMBDA i : assigned.cols[i] # FILE_NAME)
    IN Table([k \in 1..Len(order) |-> assigned.cols[order[k]]],
             [r \in 1..Len(assigned.rows) |->
                  [k \in 1..Len(order) |-> assigned.rows[r][order[k]]]])

RecognizedExts == {"csv", "xls", "xlsx", "rowout"}

(* the reading loop with "raise" in place of the "continue" of line 77 *)
RECURSIVE read_all_strict(_, _, _)
read_all_strict(file_paths, dfs, reads) ==
    IF file_paths = <<>> THEN [dfs |-> dfs, reads |-> reads, raised |-> FALSE]
    ELSE LET file_path == Head(file_paths)
             content == FileContent(file_path)
         IN
         IF endswith_ext(file_path, RecognizedExts) /\ ~content.empty
         THEN read_all_strict(Tail(file_paths),
                  Append(dfs, IF endswith_ext(file_path, {"rowout"})
                              THEN read_rowout(content, file_name_of(file_path))
                              ELSE read_table(content)),
                  Append(reads, file_path))
         ELSE [dfs |-> dfs, reads |-> Append(reads, file_path), raised |-> TRUE]

(* the reading loop of lines 59-78: the tables read, the files opened, and  *)
(* whether a reader raised (which ends the loop and the call)               *)
RECURSIVE read_all(_, _, _)
read_all(file_paths, dfs, reads) ==
    IF file_paths = <<>> THEN [dfs |-> dfs, reads |-> reads, raised |-> FALSE]
    ELSE LET file_path == Head(file_paths)
             content == FileContent(file_path)
         IN
         IF endswith_ext(file_path, {"csv"}) \/ endswith_ext(file_path, {"xls", "xlsx"})
         THEN IF content.empty
              THEN [dfs |-> dfs, reads |-> Append(reads, file_path), raised |-> TRUE]
              ELSE read_all(Tail(file_paths), Append(dfs, read_table(content)),
                            Append(reads, file_path))
         ELSE IF endswith_ext(file_path, {"rowout"})
         THEN IF content.empty
              THEN [dfs |-> dfs, reads |-> Append(reads, file_path), raised |-> TRUE]
              ELSE read_all(Tail(file_paths),
                            Append(dfs, read_rowout(content, file_name_of(file_path))),
                            Append(reads, file_path))
         ELSE read_all(Tail(file_paths), dfs, reads)

(***************************************************************************)
(* pd.concat(dfs, ignore_index=True): the columns are the union of the     *)
(* tables' columns in order of first appearance, the rows are the tables'  *)
(* rows in order, NaN where a table lacks a column.                        *)
(***************************************************************************)
RECURSIVE union_cols(_, _)
union_cols(dfs, acc) ==
    IF dfs = <<>> THEN acc
    ELSE union_cols(Tail(dfs),
                    acc \o SelectSeq(Head(dfs).cols, LAMBDA c : c \notin Range(acc)))

align_row(df, row, cols) ==
    [k \in 1..Len(cols) |->
        LET at == IndexOf(df.cols, cols[k]) IN
        IF at = 0 THEN NaN ELSE row[at]]

RECURSIVE aligned_rows(_, _)
aligned_rows(dfs, cols) ==
    IF dfs = <<>> THEN <<>>
    ELSE LET df == Head(dfs) IN
         [r \in 1..Len(df.rows) |-> align_row(df, df.rows[r], cols)]
         \o aligned_rows(Tail(dfs), cols)

name_aligned_concat(dfs) ==
    LET cols == union_cols(dfs, <<>>) IN Table(cols, aligned_rows(dfs, cols))

(* whether two of the tables have a column name in common *)
shares_names(dfs) ==
    \E i, j \in 1..Len(dfs) : i # j /\ Range(dfs[i].cols) \cap Range(dfs[j].cols) # {}

(* What pd.concat answers under each behaviour of the library: "aligns" is  *)
(* the name-aligned union; "rejects_shared_names" raises a ValueError whose *)
(* message has "duplicate names" when two tables share a column name;       *)
(* "fails_otherwise" raises a ValueError of another message.                *)
LibraryKinds == {"aligns", "rejects_shared_names", "fails_otherwise"}

pd_concat(dfs, lib) ==
    CASE lib = "aligns" -> [raised |-> "", table |-> name_aligned_concat(dfs)]
      [] lib = "rejects_shared_names" ->
           IF shares_names(dfs)
           THEN [raised |-> "duplicate names", table |-> NoTable]
           ELSE [raised |-> "", table |-> name_aligned_concat(dfs)]
      [] lib = "fails_otherwise" -> [raised |-> "other", table |-> NoTable]

(* the renaming with the table index left out *)
rename_col_unindexed(col, i) == col \o <<"_">>

(* f"{col}_{i}" *)
rename_col(col, i) == col \o <<"_">> \o str_int(i)

(* lines 95-99: every column of the i-th table (enumerate is zero-based) *)
rename_all(dfs) ==
    [t \in 1..Len(dfs) |->
        Table([k \in 1..Len(dfs[t].cols) |-> rename_col(dfs[t].cols[k], t - 1)],
              dfs[t].rows)]

(***************************************************************************)
(* DataFrameManager.load_dataframe_group                                   *)
(***************************************************************************)
(* the existence test stopping at the first missing file *)
missing_files_first(file_paths, present) ==
    LET all == SelectSeq(file_paths, LAMBDA f : f \notin present)
    IN IF all = <<>> THEN <<>> ELSE <<Head(all)>>

missing_files(file_paths, present) ==
    SelectSeq(file_paths, LAMBDA f : f \notin present)

(* the renaming pass applied without waiting for a failure *)
combine_always_renaming(dfs, reads, lib) ==
    LET second == pd_concat(rename_all(dfs), lib) IN
    IF second.raised = ""
    THEN Answer("table", second.table, <<>>, reads, dfs, TRUE, 1)
    ELSE Answer("ValueError", NoTable, <<>>, reads, dfs, TRUE, 1)

(* lines 88-104 *)
combine(dfs, reads, lib) ==
    LET first == pd_concat(dfs, lib) IN
    IF first.raised = ""
    THEN Answer("table", first.table, <<>>, reads, dfs, FALSE, 1)
    ELSE IF first.raised = "duplicate names"
    THEN LET second == pd_concat(rename_all(dfs), lib)
         IN IF second.raised = ""
            THEN Answer("table", second.table, <<>>, reads, dfs, TRUE, 2)
            ELSE Answer("ValueError", NoTable, <<>>, reads, dfs, TRUE, 2)
    ELSE Answer("ValueError", NoTable, <<>>, reads, dfs, FALSE, 1)

(* load_dataframe_group without the guard of line 48: the lookup of line 51 *)
(* raises KeyError for an absent group, and an empty list runs through       *)
load_dataframe_group_unguarded(groups, present, lib, group_name) ==
    IF group_name \notin Keys(groups)
    THEN Answer("KeyError", NoTable, <<>>, <<>>, <<>>, FALSE, 0)
    ELSE LET file_paths == DictGet(groups, group_name)
             missing == missing_files(file_paths, present)
         IN
         IF missing # <<>>
         THEN Answer("FileNotFoundError", NoTable, missing, <<>>, <<>>, FALSE, 0)
         ELSE LET read == read_all(file_paths, <<>>, <<>>) IN
              IF read.raised
              THEN Answer("ReadError", NoTable, <<>>, read.reads, read.dfs, FALSE, 0)
              ELSE IF read.dfs = <<>>
              THEN Answer("None", NoTable, <<>>, read.reads, <<>>, FALSE, 0)
              ELSE combine(read.dfs, read.reads, lib)

load_dataframe_group(groups, present, lib, group_name) ==
    IF group_name \notin Keys(groups) \/ DictGet(groups, group_name) = <<>>
    THEN Answer("None", NoTable, <<>>, <<>>, <<>>, FALSE, 0)
    ELSE LET file_paths == DictGet(groups, group_name)
             missing == missing_files(file_paths, present)
         IN
         IF missing # <<>>
         THEN Answer("FileNotFoundError", NoTable, missing, <<>>, <<>>, FALSE, 0)
         ELSE LET read == read_all(file_paths, <<>>, <<>>) IN
              IF read.raised
              THEN Answer("ReadError", NoTable, <<>>, read.reads, read.dfs, FALSE, 0)
              ELSE IF read.dfs = <<>>
              THEN Answer("None", NoTable, <<>>, read.reads, <<>>, FALSE, 0)
              ELSE combine(read.dfs, read.reads, lib)

(***************************************************************************)
(* Actions of the ingestion model: a call of load_dataframe_group, and the *)
(* file system changing under the program (which discards the answer of    *)
(* the call before).                                                       *)
(***************************************************************************)
LoadGroupNames == {<<"g">>, <<"h">>}

load_group(group_name) ==
    /\ result' = [called |-> TRUE, group |-> group_name,
                  answer |-> load_dataframe_group(file_groups, exists, library,
                                                  group_name)]
    /\ UNCHANGED <<file_groups, config, popup, last, storage, exists, library,
                 data_path, saved_df_listbox, df_call, saved>>

delete_file(path) ==
    /\ path \in exists
    /\ exists' = exists \ {path}
    /\ result' = NoResult
    /\ UNCHANGED <<file_groups, config, popup, last, storage, library,
                 data_path, saved_df_listbox, df_call, saved>>

create_file(path) ==
    /\ path \notin exists
    /\ exists' = exists \cup {path}
    /\ result' = NoResult
    /\ UNCHANGED <<file_groups, config, popup, last, storage, library,
                 data_path, saved_df_listbox, df_call, saved>>

DistinctSeqs(S, n) == {s \in SeqsUpTo(S, n) : NoDup(s)}

(* a registry as the handlers leave it: group "g" with a duplicate-free list, *)
(* or no group at all                                                         *)
LoadRegistries ==
    {<<>>} \cup {<<[name |-> <<"g">>, paths |-> l]>> : l \in DistinctSeqs(LoadPaths, MaxFiles)}

InitLoadWith(libs) ==
    /\ file_groups \in LoadRegistries
    /\ config = [state |-> "valid", text |-> json_dump(file_groups)]
    /\ popup = NoPopup
    /\ last = Last("init", "noop", <<>>)
    /\ storage = "writable"
    /\ exists = LoadPaths
    /\ library \in libs
    /\ result = NoResult
    /\ InitStore

LoadGroup == \E g \in LoadGroupNames : load_group(g)

DeleteFile == \E p \in LoadPaths : delete_file(p)

CreateFile == \E p \in LoadPaths : create_file(p)

NextLoad ==
    \/ LoadGroup
    \/ DeleteFile
    \/ CreateFile

(* the ingestion engine over pandas as it is: concatenation aligns by name *)
SpecLoad == InitLoadWith({"aligns"}) /\ [][NextLoad]_vars

(* the same over every behaviour of pd.concat the except branch provides for *)
SpecFallback == InitLoadWith(LibraryKinds) /\ [][NextLoad]_vars

(***************************************************************************)
(* Processing and the table store: FileManagerApp.process_and_save (load,  *)
(* null handling, save_dataframe), DataFrameManager.load_saved_dataframe   *)
(* and FileManagerApp.delete_dataframe, over a registry that does not      *)
(* change and files that all exist.                                         *)
(***************************************************************************)
StoreCall(op, name, handle_nulls, input, after, returned) ==
    [op |-> op, name |-> name, handle_nulls |-> handle_nulls, input |-> input,
     after |-> after, returned |-> returned]

(* df.empty: no rows or no columns *)
empty(table) == table.rows = <<>> \/ table.cols = <<>>

process_and_save(group_name, raw, handle_nulls, st) ==
    LET df_name == strip(raw)
        answer == load_dataframe_group(file_groups, exists, library, group_name)
        processed == process_dataframe(answer.table, handle_nulls)
        written == save_dataframe(processed.returned, df_name, data_path, st)
    IN
    /\ group_name \in Keys(file_groups)
    /\ IF df_name = <<>>
       THEN /\ last' = Last("process_and_save", "error", df_name)
            /\ UNCHANGED <<data_path, saved_df_listbox, df_call, saved>>
       ELSE IF answer.kind # "table" \/ empty(answer.table)
       THEN /\ last' = Last("process_and_save", "error", df_name)
            /\ UNCHANGED <<data_path, saved_df_listbox, df_call, saved>>
       ELSE /\ df_call' = StoreCall("process_and_save", df_name, handle_nulls,
                                    answer.table, processed.df,
                                    processed.returned)
            /\ data_path' = written.dir
            /\ IF written.ok
               THEN /\ saved_df_listbox' = glob_pkl(written.dir)
                    /\ saved' = [saved EXCEPT ![df_name] = processed.returned]
                    /\ last' = Last("process_and_save", "success", df_name)
               ELSE /\ last' = Last("process_and_save", "error", df_name)
                    /\ UNCHANGED <<saved_df_listbox, saved>>
    /\ UNCHANGED <<file_groups, config, popup, storage, exists, library, result>>

(* a call of DataFrameManager.load_saved_dataframe *)
load_saved(name) ==
    /\ df_call' = StoreCall("load_saved_dataframe", name, "", None, None,
                            load_saved_dataframe(name, data_path))
    /\ UNCHANGED <<file_groups, config, popup, last, storage, exists, library,
                   result, data_path, saved_df_listbox, saved>>

delete_dataframe(df_name, confirmed) ==
    /\ df_name \in saved_df_listbox
    /\ IF ~confirmed
       THEN UNCHANGED <<last, data_path, saved_df_listbox, df_call, saved>>
       ELSE IF data_path[df_name].state = "absent"
       THEN /\ last' = Last("delete_dataframe", "error", df_name)
            /\ UNCHANGED <<data_path, saved_df_listbox, df_call, saved>>
       ELSE /\ data_path' = [data_path EXCEPT ![df_name] = AbsentFile]
            /\ saved_df_listbox' = glob_pkl(data_path')
            /\ df_call' = StoreCall("delete_dataframe", df_name, "", None, None, None)
            /\ saved' = [saved EXCEPT ![df_name] = None]
            /\ last' = Last("delete_dataframe", "success", df_name)
    /\ UNCHANGED <<file_groups, config, popup, storage, exists, library, result>>

(* the groups of the store model: a log after a delimited file (the union  *)
(* has nulls in some rows), two delimited files of one header (no nulls),  *)
(* and an unreadable file                                                   *)
StoreRegistry ==
    << [name |-> <<"p">>, paths |-> <<A_CSV, R_ROWOUT>>],
       [name |-> <<"r">>, paths |-> <<A_CSV, C_CSV>>],
       [name |-> <<"e">>, paths |-> <<E_CSV>>] >>

InitStoreModel ==
    /\ file_groups = StoreRegistry
    /\ config = [state |-> "valid", text |-> json_dump(file_groups)]
    /\ popup = NoPopup
    /\ last = Last("init", "noop", <<>>)
    /\ storage = "writable"
    /\ exists = LoadPaths
    /\ library = "aligns"
    /\ result = NoResult
    /\ InitStore

ProcessAndSave ==
    \E g \in Keys(file_groups), raw \in RawDfNames, h \in HandleNulls,
       st \in StorageKinds :
        process_and_save(g, raw, h, st)

LoadSaved == \E n \in DfNames : load_saved(n)

DeleteDataframe ==
    \E n \in DfNames, confirmed \in BOOLEAN : delete_dataframe(n, confirmed)

NextStore ==
    \/ ProcessAndSave
    \/ LoadSaved
    \/ DeleteDataframe

SpecStore == InitStoreModel /\ [][NextStore]_vars

(***************************************************************************)
(* Properties of the registry.                                             *)
(***************************************************************************)
Without(list, S) == SelectSeq(list, LAMBDA p : p \notin S)

SameRegistry(d1, d2) ==
    /\ Keys(d1) = Keys(d2)
    /\ \A k \in Keys(d1) : DictGet(d1, k) = DictGet(d2, k)

OthersUnchanged(k) ==
    \A o \in Keys(file_groups) \ {k} :
        o \in Keys(file_groups') /\ DictGet(file_groups', o) = DictGet(file_groups, o)

(* C1: removePaths removes by exact path match: a "Remove Selected" with a   *)
(* non-empty selection leaves the group's list equal to the list before with *)
(* exactly the selected rows' paths deleted, the rest in their order.        *)
C1_RemovesExactlySelected ==
    [][\A sel \in SUBSET (1..Len(popup.items)) :
         (sel # {} /\ do_remove(sel)) =>
            DictGet(file_groups', popup.group)
              = Without(DictGet(file_groups, popup.group),
                        {popup.paths[i] : i \in sel})]_vars

(* C2: whenever a registry mutation has reported success, a fresh manager    *)
(* built from the config file has the same group names and, for each group,  *)
(* the same paths in the same order as the registry in memory.               *)
C2_SuccessMeansPersisted ==
    (last.op \in {"create", "add", "remove", "delete"} /\ last.outcome = "success")
        => SameRegistry(load_config(config), file_groups)

(* no group's list holds the same path twice *)
C3_NoDupInvariant ==
    \A k \in Keys(file_groups) : NoDup(DictGet(file_groups, k))

(* what a step of add_files_to_group does to the group it is given *)
C3_AddStep ==
    \A g \in Keys(file_groups) \cap {last'.group} :
      \A ps \in SeqsUpTo(RegPaths, MaxAdd) :
        (last'.op = "add" /\ add_files_to_group(g, ps)) =>
            LET pre == DictGet(file_groups, g)
                post == DictGet(file_groups', g)
                new == SubSeq(post, Len(pre) + 1, Len(post))
            IN /\ Len(post) >= Len(pre)
               /\ SubSeq(post, 1, Len(pre)) = pre
               /\ Range(new) = Range(ps) \ Range(pre)
               /\ NoDup(new)
               /\ \A i, j \in 1..Len(new) :
                    i < j => IndexOf(ps, new[i]) < IndexOf(ps, new[j])
               /\ OthersUnchanged(g)

(* C3: from the empty registry on, no group's list ever holds the same path  *)
(* twice, and add_files_to_group keeps the old list as a prefix and appends  *)
(* exactly the given paths that were not in it, each once, in the order      *)
(* first given, leaving the other groups alone.                              *)
C3_NoDuplicatesAddAppendsNew ==
    [][C3_NoDupInvariant /\ C3_NoDupInvariant' /\ C3_AddStep]_vars

C3_Witness ==
    /\ last.op = "add" /\ last.outcome = "success"
    /\ \E k \in Keys(file_groups) :
         DictGet(file_groups, k) = <<P("b", <<"x", "csv">>), P("a", <<"x", "csv">>)>>

(* C4 as stated: create_group given the typed name fails when that name is   *)
(* empty or is a group already, leaving registry and config file as they     *)
(* were, and otherwise adds a group of that name with an empty list.         *)
C4_CreateByGivenName ==
    [][\A raw \in RawNames :
         create_group(raw) =>
            IF raw = <<>> \/ raw \in Keys(file_groups)
            THEN file_groups' = file_groups /\ config' = config
            ELSE /\ Keys(file_groups') = Keys(file_groups) \cup {raw}
                 /\ DictGet(file_groups', raw) = <<>>
                 /\ OthersUnchanged(raw)]_vars

(* C4 amended: the same with the name taken after stripping leading and      *)
(* trailing whitespace: empty or already a group after stripping fails and   *)
(* changes neither registry nor config file; otherwise a group of the        *)
(* stripped name is added with an empty list, the other groups unchanged.    *)
C4_CreateByStrippedName ==
    [][\A raw \in RawNames :
         create_group(raw) =>
            LET name == strip(raw) IN
            IF name = <<>> \/ name \in Keys(file_groups)
            THEN /\ file_groups' = file_groups /\ config' = config
                 /\ last'.outcome = "error"
            ELSE /\ Keys(file_groups') = Keys(file_groups) \cup {name}
                 /\ DictGet(file_groups', name) = <<>>
                 /\ OthersUnchanged(name)
                 /\ last'.outcome = "success"]_vars

C4_Witness ==
    /\ last.op = "create" /\ last.outcome = "error"
    /\ last.group \in Keys(file_groups)
    /\ DictGet(file_groups, last.group) # <<>>
    /\ Len(file_groups) = 2


(***************************************************************************)
(* Properties of the ingestion engine.  Each speaks of the answer of the   *)
(* last call, for the registry and the files as they are.                  *)
(***************************************************************************)
CalledOn(g) == result.called /\ result.group = g

GroupPaths(g) == IF g \in Keys(file_groups) THEN DictGet(file_groups, g) ELSE <<>>

IsSubsequenceInOrder(sub, list) ==
    /\ NoDup(sub)
    /\ \A i, j \in 1..Len(sub) : i < j => IndexOf(list, sub[i]) < IndexOf(list, sub[j])

RECURSIVE FlatCols(_)
FlatCols(dfs) == IF dfs = <<>> THEN <<>> ELSE Head(dfs).cols \o FlatCols(Tail(dfs))

RECURSIVE FlatRows(_)
FlatRows(paths) ==
    IF paths = <<>> THEN <<>> ELSE FileContent(Head(paths)).rows \o FlatRows(Tail(paths))

RECURSIVE SumRows(_)
SumRows(dfs) == IF dfs = <<>> THEN 0 ELSE Len(Head(dfs).rows) + SumRows(Tail(dfs))

Ext(path) == lower(path.segs[Len(path.segs)])

Recognized(path) ==
    Len(path.segs) >= 2 /\ Ext(path) \in {"csv", "xls", "xlsx", "rowout"}

(* C5: a call on a group with a path that does not exist ends in the         *)
(* missing-files error naming exactly the group's missing paths, in group    *)
(* order, and no file of the group has been opened or parsed.                *)
C5_MissingFilesBeforeAnyRead ==
    \A g \in LoadGroupNames :
        (CalledOn(g) /\ Range(GroupPaths(g)) \ exists # {}) =>
            /\ result.answer.kind = "FileNotFoundError"
            /\ Range(result.answer.missing) = Range(GroupPaths(g)) \ exists
            /\ IsSubsequenceInOrder(result.answer.missing, GroupPaths(g))
            /\ result.answer.reads = <<>>
            /\ result.answer.dfs = <<>>

C5_Witness ==
    /\ CalledOn(<<"g">>)
    /\ result.answer.kind = "FileNotFoundError"
    /\ Len(result.answer.missing) = 2
    /\ N_TXT \in Range(result.answer.missing)
    /\ Head(GroupPaths(<<"g">>)) \in exists

(* C6: a call on a group that is absent, or present with no paths, returns   *)
(* None without raising, and leaves registry and config file as they were.   *)
C6_AbsentOrEmptyGivesNone ==
    [][\A g \in LoadGroupNames :
         (load_group(g) /\ GroupPaths(g) = <<>>) =>
            /\ result'.answer.kind = "None"
            /\ result'.answer.reads = <<>>
            /\ file_groups' = file_groups
            /\ config' = config]_vars

C6_Witness ==
    /\ result.called
    /\ result.group \notin Keys(file_groups)
    /\ file_groups # <<>>
    /\ result.answer.kind = "None"

(* C7: with every path of the group present, the call answers as it does     *)
(* for the group without its paths of unrecognized extension; when it        *)
(* returns a table it has read exactly the recognized paths, in order, and   *)
(* when no path is recognized it returns None.                               *)
C7_UnrecognizedSkipped ==
    \A g \in LoadGroupNames :
        (CalledOn(g) /\ g \in Keys(file_groups) /\ Range(GroupPaths(g)) \subseteq exists) =>
            LET kept == SelectSeq(GroupPaths(g), Recognized)
                other == load_dataframe_group(DictSet(file_groups, g, kept),
                                              exists, library, g)
            IN /\ result.answer.kind = other.kind
               /\ result.answer.table = other.table
               /\ result.answer.kind = "table" => result.answer.reads = kept
               /\ kept = <<>> => result.answer.kind = "None"

C7_Witness ==
    /\ CalledOn(<<"g">>)
    /\ GroupPaths(<<"g">>) = <<N_TXT, B_XLSX, A_CSV>>
    /\ result.answer.kind = "table"

(* a non-empty list of readable delimited-text files that share one header *)
SameHeaderCsv(paths) ==
    /\ paths # <<>>
    /\ \A i \in 1..Len(paths) :
         /\ Len(paths[i].segs) >= 2 /\ Ext(paths[i]) = "csv"
         /\ ~FileContent(paths[i]).empty
         /\ FileContent(paths[i]).header = FileContent(paths[1]).header

(* C8: for a non-empty group of delimited-text files that share one header,  *)
(* the table returned has exactly that header as its columns and the files'  *)
(* rows, file after file in group order, each file's rows in file order.     *)
C8_SameSchemaCsv ==
    \A g \in LoadGroupNames :
        (CalledOn(g) /\ SameHeaderCsv(GroupPaths(g))
                     /\ Range(GroupPaths(g)) \subseteq exists) =>
            /\ result.answer.kind = "table"
            /\ result.answer.table.cols
                 = HeaderCols(FileContent(GroupPaths(g)[1]).header)
            /\ result.answer.table.rows = FlatRows(GroupPaths(g))
            /\ Len(result.answer.table.rows) = SumRows(result.answer.dfs)

C8_Witness ==
    /\ CalledOn(<<"g">>)
    /\ GroupPaths(<<"g">>) = <<C_CSV, A_CSV>>
    /\ result.answer.kind = "table"
    /\ Len(result.answer.table.rows) = 3

(* A group mixing delimited-text and whitespace-delimited-log files, all     *)
(* readable, where a column name occurs in two of the files.                 *)
MixedOverlapping(paths) ==
    /\ \A i \in 1..Len(paths) :
         /\ Len(paths[i].segs) >= 2 /\ Ext(paths[i]) \in {"csv", "rowout"}
         /\ ~FileContent(paths[i]).empty
    /\ \E i \in 1..Len(paths) : Ext(paths[i]) = "csv"
    /\ \E i \in 1..Len(paths) : Ext(paths[i]) = "rowout"
    /\ \E i, j \in 1..Len(paths) :
         /\ i # j
         /\ Range(FileContent(paths[i]).header) \cap Range(FileContent(paths[j]).header) # {}

RenamedCols(dfs) ==
    FlatCols([t \in 1..Len(dfs) |->
                 Table([k \in 1..Len(dfs[t].cols) |->
                           dfs[t].cols[k] \o <<"_">> \o str_int(t - 1)],
                       dfs[t].rows)])

(* C9 as stated, over pandas as it is (a concatenation that aligns columns   *)
(* by name): for such a group the call returns a table whose columns are     *)
(* the columns of the i-th table read, each named <original>_<i>.            *)
C9_MixedGroupsRenamed ==
    \A g \in LoadGroupNames :
        (CalledOn(g) /\ MixedOverlapping(GroupPaths(g))
                     /\ Range(GroupPaths(g)) \subseteq exists
                     /\ library = "aligns") =>
            /\ result.answer.kind = "table"
            /\ result.answer.table.cols = RenamedCols(result.answer.dfs)

(* C9 amended: for such a group, when the direct concatenation succeeds the  *)
(* table's columns are the name-aligned union of the tables' columns, each   *)
(* name once and unsuffixed, in order of first appearance; the columns are   *)
(* the index-suffixed ones only when the direct concatenation raised the     *)
(* duplicate-names ValueError; another concatenation failure is raised.      *)
C9_MixedGroupsAlignedUnlessCollision ==
    \A g \in LoadGroupNames :
        (CalledOn(g) /\ MixedOverlapping(GroupPaths(g))
                     /\ Range(GroupPaths(g)) \subseteq exists) =>
            LET a == result.answer IN
            CASE library = "aligns" ->
                   /\ a.kind = "table" /\ ~a.renamed
                   /\ NoDup(a.table.cols)
                   /\ Range(a.table.cols) = Range(FlatCols(a.dfs))
                   /\ IsSubsequenceInOrder(a.table.cols, FlatCols(a.dfs))
                   /\ Len(a.table.rows) = SumRows(a.dfs)
              [] library = "rejects_shared_names" ->
                   /\ a.kind = "table" /\ a.renamed
                   /\ a.table.cols = RenamedCols(a.dfs)
              [] library = "fails_otherwise" ->
                   a.kind = "ValueError" /\ ~a.renamed

C9_Witness ==
    /\ CalledOn(<<"g">>)
    /\ GroupPaths(<<"g">>) = <<A_CSV, R_ROWOUT>>
    /\ library = "aligns"
    /\ result.answer.kind = "table"
    /\ result.answer.table.cols = << <<"x">>, <<"y">>, FILE_NAME >>

(* C10: whenever the renaming pass has run, the renamed column names of all  *)
(* the tables are pairwise distinct, the retried concatenation has returned  *)
(* a table with the sum of the tables' columns and the sum of their rows,    *)
(* and pd.concat was called exactly twice; a concatenation failure that is   *)
(* not a duplicate-names one is raised after the one call, unrenamed.        *)
C10_FallbackDisambiguates ==
    LET a == result.answer IN
    /\ a.renamed =>
         /\ NoDup(FlatCols(rename_all(a.dfs)))
         /\ a.kind = "table"
         /\ Len(a.table.cols) = Len(FlatCols(a.dfs))
         /\ NoDup(a.table.cols)
         /\ Len(a.table.rows) = SumRows(a.dfs)
         /\ a.concats = 2
    /\ a.concats <= 2
    /\ (result.called /\ library = "fails_otherwise" /\ a.dfs # <<>> /\ a.kind # "ReadError") =>
         (a.kind = "ValueError" /\ ~a.renamed /\ a.concats = 1)

C10_Witness ==
    /\ CalledOn(<<"g">>)
    /\ result.answer.renamed
    /\ result.answer.kind = "table"
    /\ Len(result.answer.dfs) = 3
    /\ Len(result.answer.table.cols) = 7


(***************************************************************************)
(* Properties of null handling, the table store and the log reader.        *)
(***************************************************************************)
(* the positions of the rows of a table that hold no null, in order *)
NullFreeRows(table) ==
    SelectSeq([i \in 1..Len(table.rows) |-> i],
              LAMBDA i : \A k \in 1..Len(table.cols) : table.rows[i][k] # NaN)

NullCells(table) ==
    {<<r, k>> \in (1..Len(table.rows)) \X (1..Len(table.cols)) :
        table.rows[r][k] = NaN}

Dropped == df_call.op = "process_and_save" /\ df_call.handle_nulls = "drop"

(* C11: process_dataframe(df, 'drop') returns the columns of df and exactly  *)
(* the rows of df that hold no null, in their order; so when some row of df  *)
(* holds a null the result has strictly fewer rows and no null at all; and   *)
(* df itself is as it was before the call.                                   *)
C11_DropKeepsExactlyNullFreeRows ==
    Dropped =>
        LET input == df_call.input
            returned == df_call.returned
            kept == NullFreeRows(input)
        IN /\ returned.cols = input.cols
           /\ returned.rows = [j \in 1..Len(kept) |-> input.rows[kept[j]]]
           /\ NullCells(input) # {} =>
                 /\ Len(returned.rows) < Len(input.rows)
                 /\ NullCells(returned) = {}
           /\ df_call.after = input

(* a table with a null-holding row and a null-free row went through 'drop' *)
C11_Witness ==
    /\ Dropped
    /\ NullCells(df_call.input) # {}
    /\ df_call.returned.rows # <<>>
    /\ Len(df_call.returned.rows) < Len(df_call.input.rows)

(* C12: load_saved_dataframe(name) returns the table of the last save under  *)
(* that name that was not deleted since, equal in columns, order and values  *)
(* (nulls included), and None for a name never saved or deleted since.       *)
C12_LoadReturnsLastSaved ==
    df_call.op = "load_saved_dataframe" => df_call.returned = saved[df_call.name]

(* a path's base name without its last dot-separated segment *)
Stem(path) == SubSeq(basename(path), 1, Len(basename(path)) - 1)

(* C13: the table read from a whitespace-delimited log has FILE_NAME as its   *)
(* first column, then the header columns in file order, and every row's      *)
(* FILE_NAME is the base name without its extension ('run.1' for             *)
(* 'run.1.rowout').  A FILE_NAME cell holds no dot, so as a dotted name it   *)
(* is the one segment <<cell>>.                                              *)
C13_LogFileNameIsStem ==
    \A g \in LoadGroupNames :
        (CalledOn(g) /\ result.answer.kind = "table") =>
            \A i \in 1..Len(result.answer.reads) :
                endswith_ext(result.answer.reads[i], {"rowout"}) =>
                    LET table == result.answer.dfs[i]
                        content == FileContent(result.answer.reads[i])
                    IN /\ table.cols = <<FILE_NAME>> \o HeaderCols(content.header)
                       /\ \A r \in 1..Len(table.rows) :
                              <<table.rows[r][1]>> = Stem(result.answer.reads[i])

=============================================================================
